---- MODULE Spec2Model ----
(***************************************************************************)
(* custom_hrms (HRMS Pakistan): the scheduler hook that monkey-patches the *)
(* payroll engine's calculate_tax_by_tax_slab, the local tax-slab function *)
(* and the SalarySlip methods of hrms_pakistan/cal_tax.py.                 *)
(***************************************************************************)
EXTENDS Integers, Sequences, FiniteSets, TLC

VARIABLES
    \* ---- scheduler / monkey-patch (hooks.py, patch.py) ----
    salary_slip_calculate_tax_by_tax_slab, \* attribute of the host module salary_slip
    sys_modules_patch,                     \* is custom_hrms.hrms_pakistan.patch in sys.modules
    error_log,                             \* titles written by frappe.log_error
    ticks,                                 \* scheduler "all" events fired so far
    job_status,                            \* outcome of the last scheduled job
    tax_calls,                             \* tax-slab computations made by the host engine
    last_tax_call,                         \* function the host engine reached last, and its argument
    ref_after_first_run,                   \* the host attribute right after the first completed run
                                           \* of patch_calculate_tax_by_tax_slab
    \* ---- a direct call of cal_tax.calculate_tax_by_tax_slab ----
    slab_call,                             \* arguments, returned pair, conditions evaluated
    \* ---- SalarySlip (cal_tax.py): attributes read by calculate_variable_tax ----
    total_taxable_earnings_without_full_tax_addl_components,
    total_taxable_earnings,
    current_additional_earnings_with_full_tax,
    remaining_sub_periods,
    tax_slab,
    salary_structure_assignment,           \* from_date, tax_deducted_till_date, income_tax_slab
    payroll_period,                        \* start_date, end_date
    \* ---- SalarySlip: attributes written by calculate_variable_tax ----
    previous_total_paid_taxes,
    total_structured_tax_amount,
    current_structured_tax_amount,
    full_tax_on_additional_earnings,
    total_tax_amount,
    component_based_variable_tax,          \* tax component -> dict of amounts
    cvt_call,                              \* last call of calculate_variable_tax: component, outcome
    \* ---- SalarySlip.get_income_tax_slabs ----
    income_tax_slab_docs,                  \* the Income Tax Slab documents: disabled, effective_from
    slabs_ret,                             \* outcome of get_income_tax_slabs
    \* ---- SalarySlip.get_future_recurring_period ----
    start_date,                            \* start date of the slip
    relieving_date,                        \* relieving date of the employee, NoDate when not set
    additional_salary_to_date,             \* to_date of the Additional Salary document
    frp_ret                                \* outcome of get_future_recurring_period

patchVars == <<salary_slip_calculate_tax_by_tax_slab, sys_modules_patch, error_log,
               ticks, job_status, tax_calls, last_tax_call, ref_after_first_run>>

slipInputs == <<total_taxable_earnings_without_full_tax_addl_components,
                total_taxable_earnings, current_additional_earnings_with_full_tax,
                remaining_sub_periods, tax_slab, salary_structure_assignment, payroll_period>>

slipWritten == <<previous_total_paid_taxes, total_structured_tax_amount,
                 current_structured_tax_amount, full_tax_on_additional_earnings,
                 total_tax_amount, component_based_variable_tax, cvt_call>>

slabVars == <<income_tax_slab_docs, slabs_ret>>

periodVars == <<start_date, relieving_date, additional_salary_to_date, frp_ret>>

vars == <<patchVars, slab_call, slipInputs, slipWritten, slabVars, periodVars>>

\* ------------------------------------------------------------------------
\* Bounds
MaxTicks == 5
MaxTaxCalls == 5
MaxEarning == 3
MaxPaid == 7          \* largest sum the tax-paid query returns
MaxSubPeriods == 3    \* largest remaining_sub_periods
MaxOpening == 2       \* largest tax_deducted_till_date of the assignment
MaxAnnual == 11       \* largest annual_taxable_earning handed to the tax-slab function
MaxYear == 2          \* years 1..MaxYear

\* ------------------------------------------------------------------------
\* Numbers: Python true division yields non-integers, so amounts are exact
\* fractions [n, d] in lowest terms with d > 0.  None is the absent value.
None == [n |-> 0, d |-> 0]

Abs(x) == IF x < 0 THEN -x ELSE x

RECURSIVE GCD(_, _)
GCD(a, b) == IF b = 0 THEN a ELSE GCD(b, a % b)

Rat(n, d) == LET g == GCD(Abs(n), d) IN [n |-> n \div g, d |-> d \div g]

RatInt(i) == [n |-> i, d |-> 1]

RatAdd(a, b) == Rat(a.n * b.d + b.n * a.d, a.d * b.d)

RatSub(a, b) == Rat(a.n * b.d - b.n * a.d, a.d * b.d)

\* a / r for an integer r # 0
TrueDiv(a, r) == IF r > 0 THEN Rat(a.n, a.d * r) ELSE Rat(-a.n, a.d * (-r))

\* flt(x) < 0
IsNegative(a) == a.n < 0

\* Dates are date objects [year, month, day]; getdate keeps the date part.
Date(y, m, d) == [year |-> y, month |-> m, day |-> d]

getdate(x) == [year |-> x.year, month |-> x.month, day |-> x.day]

DateLT(a, b) ==
    \/ a.year < b.year
    \/ a.year = b.year /\ a.month < b.month
    \/ a.year = b.year /\ a.month = b.month /\ a.day < b.day

DateGT(a, b) == DateLT(b, a)

\* the absent date (None)
NoDate == Date(0, 0, 0)

SampleMonths == {1, 6, 12}
SampleDays == {1, 28}
SampleDates == {Date(y, m, d) : y \in 1..MaxYear, m \in SampleMonths, d \in SampleDays}

SlabNames == {"Slab A", "Slab B"}

\* ------------------------------------------------------------------------
\* Function objects
HostOriginal == "hrms.payroll.doctype.salary_slip.salary_slip.calculate_tax_by_tax_slab"
LocalVariant == "custom_hrms.hrms_pakistan.cal_tax.calculate_tax_by_tax_slab"
ImportError == "ImportError"
NoCall == "none"
NeverRun == "no completed run"

\* Names bound at the top level of cal_tax.py (constants, class, functions).
cal_tax_namespace ==
    { "HOLIDAYS_BETWEEN_DATES", "LEAVE_TYPE_MAP", "SALARY_COMPONENT_VALUES",
      "TAX_COMPONENTS_BY_COMPANY", "SalarySlip", "unlink_ref_doc_from_salary_slip",
      "generate_password_for_pdf", "get_salary_component_data",
      "get_payroll_payable_account", "calculate_tax_by_tax_slab",
      "eval_tax_slab_condition", "get_lwp_or_ppl_for_date_range",
      "make_salary_slip_from_timesheet", "set_missing_values", "throw_error_message",
      "on_doctype_update", "safe_eval_alt", "check_attributes",
      "enqueue_email_salary_slips", "email_salary_slips" }

\* The name patch.py imports from cal_tax (patch.py line 3).
patch_imported_name == "custom_calculate_tax_by_tax_slab"

\* The handler path registered under scheduler_events["all"]:
\* "custom_hrms.hrms_pakistan.patch.patch_calculate_tax_by_tax_slab"
scheduler_events_all ==
    [module |-> "custom_hrms.hrms_pakistan.patch", attr |-> "patch_calculate_tax_by_tax_slab"]

\* `from cal_tax import <name>`: the object bound to the name, or ImportError
\* when the module does not bind it.
ImportFrom(namespace, name) ==
    IF name \in namespace
    THEN "custom_hrms.hrms_pakistan.cal_tax." \o name
    ELSE ImportError

\* Executing the module body of patch.py: its three imports, then the def.
\* The result is the object the module binds to custom_calculate_tax_by_tax_slab,
\* or ImportError (the module is then not left in sys.modules).
patch_module_body == ImportFrom(cal_tax_namespace, patch_imported_name)

\* Names the patch module binds once its body has run; none when it raised.
patch_namespace ==
    IF patch_module_body = ImportError
    THEN {}
    ELSE {"frappe", "salary_slip", patch_imported_name, "patch_calculate_tax_by_tax_slab"}

\* Resolving a handler path: import the module, then look the attribute up.
handler_resolves(path) ==
    /\ path.module = "custom_hrms.hrms_pakistan.patch"
    /\ path.attr \in patch_namespace

\* Percentage a slab document charges (used by the slab-evaluating variant only).
SlabPercent(slab) == IF slab = "Slab A" THEN 10 ELSE IF slab = "Slab B" THEN 20 ELSE 0

\* Variant: the slab is evaluated, as in the function the stub was copied from.
calculate_tax_by_tax_slab_evaluating(annual_taxable_earning, slab, eval_globals, eval_locals) ==
    LET tax_amount == (annual_taxable_earning * SlabPercent(slab)) \div 100
        total_other_taxes_and_charges == 0
    IN  [ret |-> <<tax_amount, total_other_taxes_and_charges>>, evaluated |-> {slab}]

\* calculate_tax_by_tax_slab of cal_tax.py: the pair it returns and the slab
\* conditions it evaluates on the way.
calculate_tax_by_tax_slab(annual_taxable_earning, slab, eval_globals, eval_locals) ==
    LET tax_amount == 5
        total_other_taxes_and_charges == 5
    IN  [ret |-> <<tax_amount, total_other_taxes_and_charges>>, evaluated |-> {}]

\* ------------------------------------------------------------------------
\* SalarySlip.calculate_variable_tax and what it calls

TaxComponents == {"Income Tax", "Super Tax"}

WrittenKeys == {"previous_total_paid_taxes", "total_structured_tax_amount",
                "current_structured_tax_amount", "full_tax_on_additional_earnings",
                "current_tax_amount"}

\* a key of the dict that calculate_variable_tax does not mention
OtherKey == "tax_component_type"

DictKeys == WrittenKeys \cup {OtherKey}

whitelisted_globals == "whitelisted_globals"

\* get_data_for_eval is the caller's: its result is only handed on.
eval_locals_of_slip == "eval_locals"

\* get_opening_for(field_to_select, start_date, end_date)
get_opening_for(ssa, period, field_to_select) ==
    IF DateLT(ssa.from_date, period.start_date) THEN 0 ELSE ssa[field_to_select]

\* get_tax_paid_in_period: total_tax_paid is what the query of
\* get_salary_slip_details sums up for the component.
get_tax_paid_in_period(total_tax_paid, ssa, period) ==
    LET tax_deducted_till_date == get_opening_for(ssa, period, "tax_deducted_till_date")
    IN  total_tax_paid + tax_deducted_till_date

\* Variant: a zero divisor is treated as "nothing due" instead of raising.
structured_tax_for_period_guarded(total_structured, previous_paid, sub_periods) ==
    IF sub_periods = 0
    THEN [raised |-> FALSE, value |-> RatInt(0)]
    ELSE [raised |-> FALSE,
          value |-> TrueDiv(RatSub(total_structured, previous_paid), sub_periods)]

\* lines 101-103: the division; raised is ZeroDivisionError
structured_tax_for_period(total_structured, previous_paid, sub_periods) ==
    IF sub_periods = 0
    THEN [raised |-> TRUE, value |-> None]
    ELSE [raised |-> FALSE,
          value |-> TrueDiv(RatSub(total_structured, previous_paid), sub_periods)]

\* Variant: the structured tax is not subtracted from the total tax.
full_tax_on_additional_unsubtracted(additional_with_full_tax, taxable_earnings, slab, total_structured, old_total_tax) ==
    IF additional_with_full_tax # 0
    THEN LET total == RatInt(calculate_tax_by_tax_slab(taxable_earnings, slab,
                                 whitelisted_globals, eval_locals_of_slip).ret[1])
         IN  <<total, total>>
    ELSE <<RatInt(0), old_total_tax>>

\* lines 106-111: the pair <<full_tax_on_additional_earnings, total_tax_amount>>
full_tax_on_additional(additional_with_full_tax, taxable_earnings, slab, total_structured, old_total_tax) ==
    IF additional_with_full_tax # 0
    THEN LET total == RatInt(calculate_tax_by_tax_slab(taxable_earnings, slab,
                                 whitelisted_globals, eval_locals_of_slip).ret[1])
         IN  <<RatSub(total, total_structured), total>>
    ELSE <<RatInt(0), old_total_tax>>

\* Variant: the negative amount is not replaced by 0.
clamp_current_tax_amount_missing(current_structured, full_tax) ==
    RatAdd(current_structured, full_tax)

\* lines 113-115
clamp_current_tax_amount(current_structured, full_tax) ==
    LET current_tax_amount == RatAdd(current_structured, full_tax)
    IN  IF IsNegative(current_tax_amount) THEN RatInt(0) ELSE current_tax_amount

\* Variant: every component shares one dict, so the update reaches all entries.
update_component_entry_shared(cbvt, tax_component, values) ==
    [c \in DOMAIN cbvt |->
        [k \in DictKeys |-> IF k \in DOMAIN values THEN values[k] ELSE cbvt[c][k]]]

\* lines 117-125: component_based_variable_tax[tax_component].update({...})
update_component_entry(cbvt, tax_component, values) ==
    [cbvt EXCEPT ![tax_component] =
        [k \in DictKeys |-> IF k \in DOMAIN values THEN values[k] ELSE @[k]]]

calculate_variable_tax(tax_component) ==
    \E total_tax_paid \in 0..MaxPaid :
      LET paid == RatInt(get_tax_paid_in_period(total_tax_paid,
                            salary_structure_assignment, payroll_period))
          structured == RatInt(calculate_tax_by_tax_slab(
                            total_taxable_earnings_without_full_tax_addl_components,
                            tax_slab, whitelisted_globals, eval_locals_of_slip).ret[1])
          division == structured_tax_for_period(structured, paid, remaining_sub_periods)
      IN
      /\ previous_total_paid_taxes' = paid
      /\ total_structured_tax_amount' = structured
      /\ IF division.raised
         THEN /\ cvt_call' = [kind |-> "ZeroDivisionError", tax_component |-> tax_component,
                              value |-> None]
              /\ UNCHANGED <<current_structured_tax_amount, full_tax_on_additional_earnings,
                             total_tax_amount, component_based_variable_tax>>
         ELSE LET full == full_tax_on_additional(current_additional_earnings_with_full_tax,
                              total_taxable_earnings, tax_slab, structured, total_tax_amount)
                  current_tax_amount == clamp_current_tax_amount(division.value, full[1])
              IN
              /\ current_structured_tax_amount' = division.value
              /\ full_tax_on_additional_earnings' = full[1]
              /\ total_tax_amount' = full[2]
              /\ component_based_variable_tax' =
                    update_component_entry(component_based_variable_tax, tax_component,
                        [previous_total_paid_taxes |-> paid,
                         total_structured_tax_amount |-> structured,
                         current_structured_tax_amount |-> division.value,
                         full_tax_on_additional_earnings |-> full[1],
                         current_tax_amount |-> current_tax_amount])
              /\ cvt_call' = [kind |-> "returned", tax_component |-> tax_component,
                              value |-> current_tax_amount]
      /\ UNCHANGED <<patchVars, slab_call, slipInputs, slabVars, periodVars>>

\* ------------------------------------------------------------------------
\* Values of the variables a specification does not use
IdlePatch ==
    /\ salary_slip_calculate_tax_by_tax_slab = HostOriginal
    /\ sys_modules_patch = FALSE
    /\ error_log = <<>>
    /\ ticks = 0
    /\ job_status = "none"
    /\ tax_calls = 0
    /\ last_tax_call = [fn |-> NoCall, annual_taxable_earning |-> 0, after_ticks |-> 0]
    /\ ref_after_first_run = NeverRun

IdleSlabCall == slab_call = [kind |-> "none"]

PeriodStart == Date(1, 7, 1)
PeriodEnd == Date(2, 6, 30)

IdleSlipInputs ==
    /\ total_taxable_earnings_without_full_tax_addl_components = 0
    /\ total_taxable_earnings = 0
    /\ current_additional_earnings_with_full_tax = 0
    /\ remaining_sub_periods = 1
    /\ tax_slab = "Slab A"
    /\ salary_structure_assignment =
          [from_date |-> PeriodStart, tax_deducted_till_date |-> 0, income_tax_slab |-> "Slab A"]
    /\ payroll_period = [start_date |-> PeriodStart, end_date |-> PeriodEnd]

IdleSlipWritten ==
    /\ previous_total_paid_taxes = None
    /\ total_structured_tax_amount = None
    /\ current_structured_tax_amount = None
    /\ full_tax_on_additional_earnings = None
    /\ total_tax_amount = None
    /\ component_based_variable_tax =
          [c \in TaxComponents |->
             [k \in DictKeys |-> IF k = OtherKey /\ c = "Income Tax" THEN RatInt(7) ELSE None]]
    /\ cvt_call = [kind |-> "none", tax_component |-> "Income Tax", value |-> None]

IdleSlabs ==
    /\ income_tax_slab_docs =
          [s \in SlabNames |-> [disabled |-> FALSE, effective_from |-> Date(1, 1, 1)]]
    /\ slabs_ret = [kind |-> "none"]

IdlePeriod ==
    /\ start_date = PeriodStart
    /\ relieving_date = NoDate
    /\ additional_salary_to_date = PeriodEnd
    /\ frp_ret = [kind |-> "none"]

\* ------------------------------------------------------------------------
\* The scheduler and the host payroll engine
InitPatch ==
    IdlePatch /\ IdleSlabCall /\ IdleSlipInputs /\ IdleSlipWritten /\ IdleSlabs /\ IdlePeriod

\* One scheduler tick: the scheduler resolves the handler path (importing
\* custom_hrms.hrms_pakistan.patch when it is not loaded) and calls the handler.
\* patch_calculate_tax_by_tax_slab assigns the host attribute and logs.
SchedulerTick ==
    /\ ticks < MaxTicks
    /\ ticks' = ticks + 1
    /\ LET bound == patch_module_body IN
       IF ~handler_resolves(scheduler_events_all)
       THEN /\ job_status' = "Failed"
            /\ UNCHANGED <<salary_slip_calculate_tax_by_tax_slab, sys_modules_patch, error_log,
                           ref_after_first_run>>
       ELSE /\ sys_modules_patch' = TRUE
            /\ salary_slip_calculate_tax_by_tax_slab' = bound
            /\ error_log' = Append(error_log, "Patch Debug")
            /\ job_status' = "Complete"
            /\ ref_after_first_run' =
                  IF ref_after_first_run = NeverRun THEN bound ELSE ref_after_first_run
    /\ UNCHANGED <<tax_calls, last_tax_call, slab_call, slipInputs, slipWritten,
                   slabVars, periodVars>>

\* The host payroll engine computes a tax by slab: it calls whatever its
\* module attribute calculate_tax_by_tax_slab refers to.
HostComputeTax ==
    /\ tax_calls < MaxTaxCalls
    /\ \E a \in 0..MaxEarning :
         last_tax_call' = [fn |-> salary_slip_calculate_tax_by_tax_slab,
                           annual_taxable_earning |-> a, after_ticks |-> ticks]
    /\ tax_calls' = tax_calls + 1
    /\ UNCHANGED <<salary_slip_calculate_tax_by_tax_slab, sys_modules_patch, error_log,
                   ticks, job_status, ref_after_first_run, slab_call, slipInputs, slipWritten,
                   slabVars, periodVars>>

NextPatch == SchedulerTick \/ HostComputeTax

SpecPatch == InitPatch /\ [][NextPatch]_vars

\* ------------------------------------------------------------------------
\* A salary slip on which calculate_variable_tax is called, once or repeatedly
InitTax ==
    /\ IdlePatch /\ IdleSlabCall /\ IdleSlipWritten /\ IdleSlabs /\ IdlePeriod
    /\ total_taxable_earnings_without_full_tax_addl_components \in {0, MaxEarning}
    /\ current_additional_earnings_with_full_tax \in {0, MaxEarning}
    \* the earnings taxed in full are part of the total taxable earnings
    /\ total_taxable_earnings = total_taxable_earnings_without_full_tax_addl_components
                                + current_additional_earnings_with_full_tax
    /\ remaining_sub_periods \in 0..MaxSubPeriods
    /\ tax_slab = "Slab A"
    /\ salary_structure_assignment \in
          [from_date : {Date(1, 1, 1), PeriodStart},
           tax_deducted_till_date : {0, MaxOpening},
           income_tax_slab : {"Slab A"}]
    /\ payroll_period = [start_date |-> PeriodStart, end_date |-> PeriodEnd]

CalculateVariableTax == \E c \in TaxComponents : calculate_variable_tax(c)

NextTax == CalculateVariableTax

SpecTax == InitTax /\ [][NextTax]_vars

\* ------------------------------------------------------------------------
\* cal_tax.calculate_tax_by_tax_slab called directly
InitSlabCall ==
    /\ IdlePatch /\ IdleSlipInputs /\ IdleSlipWritten /\ IdleSlabs /\ IdlePeriod
    /\ slab_call \in [kind : {"args"},
                      annual_taxable_earning : 0..MaxAnnual,
                      slab : SlabNames \cup {"Slab C"},
                      eval_globals : {"None", whitelisted_globals},
                      eval_locals : {"None", eval_locals_of_slip}]

CallCalculateTaxByTaxSlab ==
    /\ slab_call.kind = "args"
    /\ LET r == calculate_tax_by_tax_slab(slab_call.annual_taxable_earning, slab_call.slab,
                                          slab_call.eval_globals, slab_call.eval_locals)
       IN  slab_call' = [kind |-> "returned",
                         annual_taxable_earning |-> slab_call.annual_taxable_earning,
                         slab |-> slab_call.slab,
                         eval_globals |-> slab_call.eval_globals,
                         eval_locals |-> slab_call.eval_locals,
                         ret |-> r.ret, evaluated |-> r.evaluated]
    /\ UNCHANGED <<patchVars, slipInputs, slipWritten, slabVars, periodVars>>

NextSlabCall == CallCalculateTaxByTaxSlab

SpecSlabCall == InitSlabCall /\ [][NextSlabCall]_vars

\* ------------------------------------------------------------------------
\* SalarySlip.get_income_tax_slabs
NoSlab == ""

\* Variant: the effective date is checked before the disabled flag.
get_income_tax_slabs_reordered(ssa, docs, period) ==
    LET income_tax_slab == ssa.income_tax_slab IN
    IF income_tax_slab = NoSlab
    THEN [kind |-> "throw", error |-> "Missing Tax Slab"]
    ELSE LET income_tax_slab_doc == docs[income_tax_slab] IN
         IF DateGT(getdate(income_tax_slab_doc.effective_from), getdate(period.start_date))
         THEN [kind |-> "throw", error |-> "Income Tax Slab must be effective on or before Payroll Period Start Date"]
         ELSE IF income_tax_slab_doc.disabled
         THEN [kind |-> "throw", error |-> "Income Tax Slab is disabled"]
         ELSE [kind |-> "returned", doc |-> income_tax_slab]

get_income_tax_slabs(ssa, docs, period) ==
    LET income_tax_slab == ssa.income_tax_slab IN
    IF income_tax_slab = NoSlab
    THEN [kind |-> "throw", error |-> "Missing Tax Slab"]
    ELSE LET income_tax_slab_doc == docs[income_tax_slab] IN
         IF income_tax_slab_doc.disabled
         THEN [kind |-> "throw", error |-> "Income Tax Slab is disabled"]
         ELSE IF DateGT(getdate(income_tax_slab_doc.effective_from), getdate(period.start_date))
         THEN [kind |-> "throw", error |-> "Income Tax Slab must be effective on or before Payroll Period Start Date"]
         ELSE [kind |-> "returned", doc |-> income_tax_slab]

InitSlabs ==
    /\ IdlePatch /\ IdleSlabCall /\ IdleSlipWritten /\ IdlePeriod
    /\ total_taxable_earnings_without_full_tax_addl_components = 0
    /\ total_taxable_earnings = 0
    /\ current_additional_earnings_with_full_tax = 0
    /\ remaining_sub_periods = 1
    /\ tax_slab = "Slab A"
    /\ salary_structure_assignment \in
          [from_date : {PeriodStart}, tax_deducted_till_date : {0},
           income_tax_slab : SlabNames \cup {NoSlab}]
    /\ payroll_period \in [start_date : SampleDates, end_date : {PeriodEnd}]
    /\ income_tax_slab_docs \in [SlabNames -> [disabled : BOOLEAN, effective_from : SampleDates]]
    /\ slabs_ret = [kind |-> "none"]

GetIncomeTaxSlabs ==
    /\ slabs_ret' = get_income_tax_slabs(salary_structure_assignment, income_tax_slab_docs,
                                         payroll_period)
    /\ UNCHANGED <<patchVars, slab_call, slipInputs, slipWritten, income_tax_slab_docs,
                   periodVars>>

NextSlabs == GetIncomeTaxSlabs

SpecSlabs == InitSlabs /\ [][NextSlabs]_vars

\* ------------------------------------------------------------------------
\* SalarySlip.get_future_recurring_period
\* Variant: the end date is not capped at the end of the payroll period.
get_future_recurring_period_uncapped(slip_start, relieving, salary_to_date, period_end) ==
    LET to_date1 == IF relieving # NoDate THEN relieving ELSE salary_to_date
        from_date == getdate(slip_start)
        to_date == getdate(to_date1)
        future_recurring_period ==
            ((to_date.year - from_date.year) * 12) + (to_date.month - from_date.month)
    IN  IF future_recurring_period > 0 /\ to_date.month = from_date.month
        THEN future_recurring_period - 1
        ELSE future_recurring_period

get_future_recurring_period(slip_start, relieving, salary_to_date, period_end) ==
    LET to_date1 == IF relieving # NoDate THEN relieving ELSE salary_to_date
        from_date == getdate(slip_start)
        to_date2 == getdate(to_date1)
        to_date == IF DateGT(getdate(to_date2), getdate(period_end))
                   THEN getdate(period_end) ELSE to_date2
        future_recurring_period ==
            ((to_date.year - from_date.year) * 12) + (to_date.month - from_date.month)
    IN  IF future_recurring_period > 0 /\ to_date.month = from_date.month
        THEN future_recurring_period - 1
        ELSE future_recurring_period

InitPeriod ==
    /\ IdlePatch /\ IdleSlabCall /\ IdleSlipWritten /\ IdleSlabs
    /\ total_taxable_earnings_without_full_tax_addl_components = 0
    /\ total_taxable_earnings = 0
    /\ current_additional_earnings_with_full_tax = 0
    /\ remaining_sub_periods = 1
    /\ tax_slab = "Slab A"
    /\ salary_structure_assignment =
          [from_date |-> PeriodStart, tax_deducted_till_date |-> 0, income_tax_slab |-> "Slab A"]
    /\ payroll_period \in [start_date : {Date(1, 1, 1)}, end_date : SampleDates]
    /\ start_date \in SampleDates
    /\ relieving_date \in SampleDates \cup {NoDate}
    /\ additional_salary_to_date \in SampleDates
    /\ frp_ret = [kind |-> "none"]

GetFutureRecurringPeriod ==
    /\ frp_ret' = [kind |-> "returned",
                   value |-> get_future_recurring_period(start_date, relieving_date,
                                 additional_salary_to_date, payroll_period.end_date)]
    /\ UNCHANGED <<patchVars, slab_call, slipInputs, slipWritten, slabVars,
                   start_date, relieving_date, additional_salary_to_date>>

NextPeriod == GetFutureRecurringPeriod

SpecPeriod == InitPeriod /\ [][NextPeriod]_vars

\* ========================================================================
\* Properties

IsPatchDebug(title) == title = "Patch Debug"

\* C1: once the scheduler has invoked the patch handler, the host module's
\* calculate_tax_by_tax_slab is the local variant of cal_tax, and every
\* tax-slab computation of the host engine made after that reaches the local
\* variant, not the host's original.
C1_PatchInstallsLocalVariant ==
    /\ ticks >= 1 => salary_slip_calculate_tax_by_tax_slab = LocalVariant
    /\ (last_tax_call.fn # NoCall /\ last_tax_call.after_ticks >= 1)
          => last_tax_call.fn = LocalVariant

\* C2: the local calculate_tax_by_tax_slab returns (5, 5) whatever the
\* earning, the slab and the evaluation globals/locals are, and evaluates no
\* slab condition.
C2_LocalTaxIsConstant ==
    slab_call.kind = "returned" =>
        /\ slab_call.ret = <<5, 5>>
        /\ slab_call.evaluated = {}

C2_Witness ==
    /\ slab_call.kind = "returned"
    /\ slab_call.annual_taxable_earning = MaxAnnual
    /\ slab_call.slab = "Slab B"
    /\ slab_call.eval_globals = "None"

\* C3: the handler path of the "all" event resolves to the patch function and
\* every tick runs it to completion: after n ticks the job has completed n
\* times and there are exactly n "Patch Debug" log entries.
C3_EveryTickLogsOnce ==
    /\ Len(SelectSeq(error_log, IsPatchDebug)) = ticks
    /\ ticks >= 1 => job_status = "Complete"

C5_ReturnedTaxNonNegative ==
    cvt_call.kind = "returned" =>
        /\ cvt_call.value.n >= 0 /\ cvt_call.value.d > 0
        /\ component_based_variable_tax[cvt_call.tax_component]["current_tax_amount"]
              = cvt_call.value

\* more tax was paid than is due, so the quotient is negative and is replaced by 0
C5_Witness ==
    /\ cvt_call.kind = "returned"
    /\ current_structured_tax_amount.n < 0
    /\ cvt_call.value = RatInt(0)

TaxOn(earning) ==
    RatInt(calculate_tax_by_tax_slab(earning, tax_slab, whitelisted_globals,
                                     eval_locals_of_slip).ret[1])

\* C6: after calculate_variable_tax, full_tax_on_additional_earnings is 0 when
\* current_additional_earnings_with_full_tax is falsy, and otherwise the tax on
\* total_taxable_earnings minus the tax on
\* total_taxable_earnings_without_full_tax_addl_components, on the same slab.
C6_FullTaxOnAdditionalEarnings ==
    cvt_call.kind = "returned" =>
        full_tax_on_additional_earnings =
            IF current_additional_earnings_with_full_tax = 0
            THEN RatInt(0)
            ELSE RatSub(TaxOn(total_taxable_earnings),
                        TaxOn(total_taxable_earnings_without_full_tax_addl_components))

C6_Witness ==
    /\ cvt_call.kind = "returned"
    /\ current_additional_earnings_with_full_tax # 0
    /\ total_tax_amount = RatInt(5)

\* C7: with remaining_sub_periods = 0 a call of calculate_variable_tax ends in a
\* division error, returns no amount and leaves component_based_variable_tax
\* as it was.
C7_ZeroSubPeriodsRaises ==
    [][remaining_sub_periods = 0 =>
          /\ cvt_call'.kind = "ZeroDivisionError"
          /\ cvt_call'.value = None
          /\ component_based_variable_tax' = component_based_variable_tax]_vars

C7_Witness ==
    /\ remaining_sub_periods = 0
    /\ cvt_call.kind = "ZeroDivisionError"
    /\ previous_total_paid_taxes # None

\* C8: a call of calculate_variable_tax for one component leaves the entries of
\* the other components as they were, and in the component's own entry changes
\* none but the five keys it writes.
C8_OnlyGivenComponentWritten ==
    [][\A c \in TaxComponents : \A k \in DictKeys :
          (c # cvt_call'.tax_component \/ k \notin WrittenKeys)
             => component_based_variable_tax'[c][k] = component_based_variable_tax[c][k]]_vars

C8_Witness ==
    /\ cvt_call.kind = "returned"
    /\ cvt_call.tax_component = "Income Tax"
    /\ component_based_variable_tax["Income Tax"]["current_tax_amount"] # None
    /\ component_based_variable_tax["Income Tax"][OtherKey] = RatInt(7)
    /\ component_based_variable_tax["Super Tax"]["current_tax_amount"] # None
    /\ component_based_variable_tax["Super Tax"]["previous_total_paid_taxes"]
          # component_based_variable_tax["Income Tax"]["previous_total_paid_taxes"]

Ordinal(d) == d.year * 10000 + d.month * 100 + d.day

\* C9: get_income_tax_slabs returns the slab document exactly when the
\* assignment names a slab, the slab is not disabled and its effective_from is
\* on or before the payroll period start; otherwise it raises, reporting the
\* first failing check in the order missing, disabled, effective date.
C9_IncomeTaxSlabChecks ==
    slabs_ret.kind # "none" =>
        LET name == salary_structure_assignment.income_tax_slab
            named == name # NoSlab
            disabled == IF named THEN income_tax_slab_docs[name].disabled ELSE FALSE
            late == IF named
                    THEN Ordinal(income_tax_slab_docs[name].effective_from)
                            > Ordinal(payroll_period.start_date)
                    ELSE FALSE
        IN  /\ slabs_ret.kind = "returned" <=> (named /\ ~disabled /\ ~late)
            /\ slabs_ret.kind = "returned" => slabs_ret.doc = name
            /\ ~named => slabs_ret = [kind |-> "throw", error |-> "Missing Tax Slab"]
            /\ (named /\ disabled)
                  => slabs_ret = [kind |-> "throw", error |-> "Income Tax Slab is disabled"]
            /\ (named /\ ~disabled /\ late)
                  => slabs_ret = [kind |-> "throw", error |->
                        "Income Tax Slab must be effective on or before Payroll Period Start Date"]

\* a disabled slab that is also not yet effective is reported as disabled
C9_Witness ==
    /\ slabs_ret = [kind |-> "throw", error |-> "Income Tax Slab is disabled"]
    /\ salary_structure_assignment.income_tax_slab = "Slab B"
    /\ Ordinal(income_tax_slab_docs["Slab B"].effective_from) > Ordinal(payroll_period.start_date)

MonthIndex(d) == d.year * 12 + d.month

\* C10: get_future_recurring_period returns the calendar-month difference
\* between the slip start date and the end date (relieving date if set, else
\* the additional salary's to_date, capped at the payroll period end), less one
\* when that difference is positive and both dates are in the same calendar
\* month; it never exceeds the month difference to the payroll period end.
C10_FutureRecurringPeriod ==
    frp_ret.kind = "returned" =>
        LET chosen == IF relieving_date # NoDate THEN relieving_date
                      ELSE additional_salary_to_date
            capped == IF Ordinal(chosen) > Ordinal(payroll_period.end_date)
                      THEN payroll_period.end_date ELSE chosen
            diff == MonthIndex(capped) - MonthIndex(start_date)
        IN  /\ frp_ret.value = IF diff > 0 /\ capped.month = start_date.month
                               THEN diff - 1 ELSE diff
            /\ frp_ret.value <= MonthIndex(payroll_period.end_date) - MonthIndex(start_date)

\* the to_date lies beyond the payroll period, which ends twelve months after
\* the slip starts: eleven future months are counted
C10_Witness ==
    /\ frp_ret.kind = "returned"
    /\ relieving_date = NoDate
    /\ Ordinal(additional_salary_to_date) > Ordinal(payroll_period.end_date)
    /\ MonthIndex(payroll_period.end_date) - MonthIndex(start_date) = 12
    /\ frp_ret.value = 11

====
